---- MODULE Spec2Model ----
(***************************************************************************)
(* Model of art/simulator/code_simulator_arm64.cc: the ARM64 code          *)
(* simulator facade (CodeSimulatorArm64), its branch interceptor           *)
(* (CustomSimulator) and the simulation eligibility policy (CanSimulate).  *)
(*                                                                         *)
(* 64-bit values are pairs <<lo, hi>> of 32-bit words (little endian, as   *)
(* on the 64-bit host), so that a W/S write (one word, zero-extended) and  *)
(* an X/D write (two words) are different things.  Stack addresses are     *)
(* byte addresses; the simulated stack memory maps the 4-byte-aligned      *)
(* addresses written so far to their word.                                 *)
(***************************************************************************)
EXTENDS Integers, Sequences, FiniteSets, TLC

VARIABLES
  pc,            \* position inside CodeSimulatorArm64::Invoke ("idle" outside)
  xreg,          \* simulator: x0 .. x30
  vreg,          \* simulator: v0 .. v31 (low 64 bits)
  sp,            \* simulator: stack pointer (byte address)
  sim_pc,        \* simulator: pc_
  mem,           \* simulated stack memory: written word address -> word
  saved_sp_,     \* CodeSimulatorArm64::saved_sp_
  qpoints_,      \* CustomSimulator::qpoints_
  call,          \* the parameters of the Invoke in flight
  result,        \* the JValue the result parameter points to
  quick_code,    \* local quick_code of Invoke
  native_calls,  \* host functions called by the interceptor during this run
  cur_instr,     \* the instruction the simulator executed last
  steps,         \* instructions executed in this run
  entry_sp,      \* history: sp at the moment Invoke was called
  entry_state,   \* history: simulator state at the moment RunFrom was entered
  ret_state,     \* history: x0 and v0 at the moment RunFrom returned
  name,          \* method->PrettyMethod() of the method CanSimulate is asked about
  allow_mode,    \* build setting of kEnableSimulateMethodAllowList
  can_simulate   \* <<>>, or <<b>> once CanSimulate has returned b

vars == <<pc, xreg, vreg, sp, sim_pc, mem, saved_sp_, qpoints_, call, result,
          quick_code, native_calls, cur_instr, steps, entry_sp, entry_state,
          ret_state, name, allow_mode, can_simulate>>

facadeVars == <<pc, xreg, vreg, sp, sim_pc, mem, saved_sp_, qpoints_, call,
                result, quick_code, native_calls, cur_instr, steps, entry_sp,
                entry_state, ret_state>>

policyVars == <<name, allow_mode, can_simulate>>

----------------------------------------------------------------------------
(* Bounds of the model.                                                    *)

\* instructions the simulator executes in one run
MaxSteps == 2
\* longest run of integer-class / floating-point parameters in a signature
MaxRun == 9
\* fragments a method name is assembled from
MaxFragments == 2
\* instructions of one run where the order of the host calls is observed
MaxOrderSteps == 4
\* most integer-class parameters of a signature
MaxIntParams == 20

----------------------------------------------------------------------------
(* Strings are sequences of characters; std::string::find is a real        *)
(* substring search.                                                       *)

Contains(str, s) ==
  \E i \in 0..(Len(str) - Len(s)) : SubSeq(str, i + 1, i + Len(s)) = s

kSimulateMarker == <<"$","s","i","m","u","l","a","t","e","$">>

kEnableSimulateMethodAllowList == FALSE

simulate_method_allow_list == <<
  <<"o","t","h","e","r",".","T","e","s","t","B","y","t","e",".","t","e","s","t","D","o","t","P","r","o","d","C","o","m","p","l","e","x">>,
  <<"o","t","h","e","r",".","T","e","s","t","B","y","t","e",".","t","e","s","t","D","o","t","P","r","o","d","C","o","m","p","l","e","x","S","i","g","n","e","d","C","a","s","t","e","d","T","o","U","n","s","i","g","n","e","d">>,
  <<"o","t","h","e","r",".","T","e","s","t","B","y","t","e",".","t","e","s","t","D","o","t","P","r","o","d","C","o","m","p","l","e","x","U","n","s","i","g","n","e","d">>,
  <<"o","t","h","e","r",".","T","e","s","t","B","y","t","e",".","t","e","s","t","D","o","t","P","r","o","d","C","o","m","p","l","e","x","U","n","s","i","g","n","e","d","C","a","s","t","e","d","T","o","S","i","g","n","e","d">> >>

avoid_simulation_method_list == <<
  <<"m","a","i","n">>,
  <<"<","c","l","i","n","i","t",">">>,
  <<"j","a","v","a",".">>,
  <<"s","u","n",".">>,
  <<"d","a","l","v","i","k",".">>,
  <<"a","n","d","r","o","i","d",".">>,
  <<"l","i","b","c","o","r","e",".">> >>

\* for (auto& s : list) if (name.find(s) != npos) return <hit>; ... <miss>
RECURSIVE FirstMatch(_, _, _)
FirstMatch(list, i, str) ==
  IF i > Len(list) THEN FALSE
  ELSE IF Contains(str, list[i]) THEN TRUE
  ELSE FirstMatch(list, i + 1, str)

CanSimulate_noMarker(mode, str) ==
  IF mode
    THEN FirstMatch(simulate_method_allow_list, 1, str)
    ELSE ~FirstMatch(avoid_simulation_method_list, 1, str)

\* CodeSimulatorArm64::CanSimulate, with the compile-time switch a parameter
CanSimulate(mode, str) ==
  IF Contains(str, kSimulateMarker) THEN TRUE
  ELSE IF mode
    THEN FirstMatch(simulate_method_allow_list, 1, str)
    ELSE ~FirstMatch(avoid_simulation_method_list, 1, str)

----------------------------------------------------------------------------
(* Values and registers.                                                   *)

\* Special registers (asm_support_arm64.s)
kSelf == 19
kMR == 20
kFp == 29
kSp == 31
kLinkRegCode == 30
kXRegSizeInBytes == 8
kInstructionSize == 4
kRegisterIndexLimit == 8
kUseReadBarrier == TRUE

\* a host address or small integer as a zero-extended 64-bit value
Ptr(a) == <<a, 0>>

NullPtr == <<0, 0>>

\* Returning to address 0 exits the Simulator
kEndOfSimAddress == NullPtr

Add64(v, k) == <<v[1] + k, v[2]>>

\* host addresses the callers of the facade hand in
Host == [self |-> 7000, result |-> 7100, shorty |-> 7200,
         code |-> 8000, other_code |-> 8800, heap |-> 9000]

\* the simulator's initial stack pointer (top of its stack, 16-byte aligned)
StackTop == 1024

\* Simulator::ReadXRegister / WriteXRegister: code 31 is the zero register
ReadXRegister(x, n) == IF n = 31 THEN NullPtr ELSE x[n]

WriteXRegister(x, n, v) == IF n = 31 THEN x ELSE [x EXCEPT ![n] = v]

\* a W write zero-extends into the X register
WriteWRegister(x, n, w) == WriteXRegister(x, n, <<w, 0>>)

ReadWRegister(x, n) == ReadXRegister(x, n)[1]

\* a D write fills the low 64 bits, an S write the low 32 and clears the rest
WriteDRegister(v, n, d) == [v EXCEPT ![n] = d]

WriteSRegister(v, n, f) == [v EXCEPT ![n] = <<f, 0>>]

ReadDRegister(v, n) == v[n]

ReadSRegister(v, n) == v[n][1]

\* the state Simulator::ResetState leaves in the registers
BaselineX == [n \in 0..30 |-> IF n = kLinkRegCode THEN kEndOfSimAddress
                                                   ELSE <<195948527, 0>>]

BaselineV == [n \in 0..31 |-> <<2139156720, 2146496512>>]

\* stores into the (host-memory backed) simulated stack
Store64(m, a, v) ==
  [b \in DOMAIN m \cup {a, a + 4} |->
     IF b = a THEN v[1] ELSE IF b = a + 4 THEN v[2] ELSE m[b]]

Load64(m, a) == <<m[a], m[a + 4]>>

\* word i of the argument buffer; a read past its end yields whatever the
\* host memory behind the buffer holds
ArgWord(args, i, junk) == IF i <= Len(args) THEN args[i] ELSE junk

\* std::memcpy(dst, args, nbytes), nbytes a multiple of 4
Memcpy(m, dst, args, nbytes, junk) ==
  LET to == {dst + 4 * i : i \in 0..((nbytes \div 4) - 1)}
  IN [b \in DOMAIN m \cup to |->
        IF b \in to THEN ArgWord(args, ((b - dst) \div 4) + 1, junk) ELSE m[b]]

\* save_registers[i] = vals[i + 1], i = 0 .. 14
RECURSIVE StoreRegs(_, _, _, _)
StoreRegs(m, base, vals, i) ==
  IF i > Len(vals) THEN m
  ELSE StoreRegs(Store64(m, base + kXRegSizeInBytes * (i - 1), vals[i]),
                 base, vals, i + 1)

\* a frame allocation without the alignment
AlignDown16_none(a) == a

\* x & ~0xf on a non-negative address
AlignDown16(a) == a - (a % 16)

----------------------------------------------------------------------------
(* CodeSimulatorArm64::InitRegistersForInvokeStub                          *)

\* what a build makes of reaching UNREACHABLE(): a trap, or nothing at all
UnreachableOutcomes == {"abort", "continue"}

\* the loop "Fill registers from args, according to shorty" (lines 381-405);
\* s is the shorty behind the return type, a the index of the next word
RECURSIVE FillRegisters(_, _, _, _, _, _, _, _)
FillRegisters(st, s, i, args, a, gpr_index, fpr_index, ub) ==
  IF i > Len(s) THEN [st EXCEPT !.gpr_index = gpr_index, !.fpr_index = fpr_index]
  ELSE
    LET c == s[i]
        w0 == ArgWord(args, a, st.junk)
        w1 == ArgWord(args, a + 1, st.junk)
        st1 == CASE c = "D" -> [st EXCEPT !.v = WriteDRegister(@, fpr_index, <<w0, w1>>)]
                 [] c = "J" -> [st EXCEPT !.x = WriteXRegister(@, gpr_index, <<w0, w1>>)]
                 [] c = "F" -> [st EXCEPT !.v = WriteSRegister(@, fpr_index, w0)]
                 [] OTHER   -> [st EXCEPT !.x = WriteWRegister(@, gpr_index, w0)]
        a1 == IF c \in {"D", "J"} THEN a + 2 ELSE a + 1
        g1 == IF c \in {"D", "F"} THEN gpr_index ELSE gpr_index + 1
        f1 == IF c \in {"D", "F"} THEN fpr_index + 1 ELSE fpr_index
    IN IF (g1 > kRegisterIndexLimit \/ f1 < kRegisterIndexLimit) /\ ub = "abort"
         THEN [st1 EXCEPT !.status = "fatal", !.gpr_index = g1, !.fpr_index = f1]
         ELSE FillRegisters(st1, s, i + 1, args, a1, g1, f1, ub)

\* sim = [x, v, sp, mem]; c = the parameters of Invoke; junk = the host
\* memory behind the argument buffer; ub = the build's UNREACHABLE()
InitRegistersForInvokeStub(sim, c, junk, ub) ==
  LET x0 == WriteXRegister(WriteXRegister(WriteXRegister(WriteXRegister(sim.x,
               0, Ptr(c.method.ptr)), kSelf, Ptr(c.self.ptr)),
               4, Ptr(Host.result)), 5, Ptr(Host.shorty))
      saved == sim.sp
      regs_save_size_in_bytes == kXRegSizeInBytes * 15
      frame_save_size == regs_save_size_in_bytes + kXRegSizeInBytes
                           + c.args_size_in_bytes
      new_sp == AlignDown16(saved - frame_save_size)
      m1 == Store64(sim.mem, new_sp, NullPtr)
      m2 == Memcpy(m1, new_sp + 8, c.args, c.args_size_in_bytes * 4, junk)
      save_registers == saved + 3 * 8
      m3 == StoreRegs(m2, save_registers,
                      <<x0[kFp], x0[kLinkRegCode], x0[4], x0[5], Ptr(saved),
                        x0[kSelf]>> \o [i \in 1..9 |-> x0[i + 19]], 1)
      x1 == WriteXRegister(x0, kFp, Ptr(saved - regs_save_size_in_bytes))
      x2 == IF c.isStatic THEN x1
                          ELSE WriteWRegister(x1, 1, ArgWord(c.args, 1, junk))
      st0 == [x |-> x2, v |-> sim.v, sp |-> new_sp, mem |-> m3,
              saved_sp |-> saved, status |-> "ok", junk |-> junk,
              gpr_index |-> 1, fpr_index |-> 0]
      st1 == FillRegisters(st0, Tail(c.shorty), 1, c.args,
                           IF c.isStatic THEN 1 ELSE 2,
                           IF c.isStatic THEN 1 ELSE 2, 0, ub)
  IN IF st1.status = "ok" /\ kUseReadBarrier
       THEN [st1 EXCEPT !.x = WriteWRegister(@, kMR,
                                 IF c.self.is_gc_marking THEN 1 ELSE 0)]
       ELSE st1

----------------------------------------------------------------------------
(* CustomSimulator: the branch interceptor.                                *)

\* QuickEntryPoints: the host addresses of the runtime services
EntryPoints == [pTestSuspend |-> Ptr(5000),
                pAllocObjectInitialized |-> Ptr(5100),
                pAllocArrayResolved8 |-> Ptr(5208),
                pAllocArrayResolved16 |-> Ptr(5216),
                pAllocArrayResolved32 |-> Ptr(5232),
                pAllocArrayResolved64 |-> Ptr(5264)]

\* the QuickEntryPoints of another thread: the same services elsewhere
OtherEntryPoints == [pTestSuspend |-> Ptr(5500),
                     pAllocObjectInitialized |-> Ptr(5600),
                     pAllocArrayResolved8 |-> Ptr(5708),
                     pAllocArrayResolved16 |-> Ptr(5716),
                     pAllocArrayResolved32 |-> Ptr(5732),
                     pAllocArrayResolved64 |-> Ptr(5764)]

\* qpoints_ == nullptr
NoEntryPoints == [pTestSuspend |-> NullPtr,
                  pAllocObjectInitialized |-> NullPtr,
                  pAllocArrayResolved8 |-> NullPtr,
                  pAllocArrayResolved16 |-> NullPtr,
                  pAllocArrayResolved32 |-> NullPtr,
                  pAllocArrayResolved64 |-> NullPtr]

\* Simulator::RuntimeCallVoid(f) for void (*)(): the call, nothing else
RuntimeCallVoid(s, f) ==
  [s EXCEPT !.calls = Append(@, [fn |-> f, args |-> <<>>, ret |-> <<>>])]

\* Simulator::RuntimeCallNonVoid(f) for void* (*)(mirror::Class*)
RuntimeCallNonVoid1(s, f, ret) ==
  [s EXCEPT !.calls = Append(@, [fn |-> f, args |-> <<ReadXRegister(s.x, 0)>>,
                                 ret |-> <<ret>>]),
            !.x = WriteXRegister(@, 0, ret)]

\* a call helper that queues the call in front of the earlier ones
RuntimeCallNonVoid2_outOfOrder(s, f, ret) ==
  [s EXCEPT !.calls = <<[fn |-> f,
                         args |-> <<ReadXRegister(s.x, 0),
                                    Ptr(ReadWRegister(s.x, 1))>>,
                         ret |-> <<ret>>]>> \o @,
            !.x = WriteXRegister(@, 0, ret)]

\* Simulator::RuntimeCallNonVoid(f) for void* (*)(mirror::Class*, int32_t)
RuntimeCallNonVoid2(s, f, ret) ==
  [s EXCEPT !.calls = Append(@, [fn |-> f,
                                 args |-> <<ReadXRegister(s.x, 0),
                                            Ptr(ReadWRegister(s.x, 1))>>,
                                 ret |-> <<ret>>]),
            !.x = WriteXRegister(@, 0, ret)]

\* Simulator::VisitUnconditionalBranchToRegister, the default simulation
DefaultVisit(s, ins) ==
  LET target == ReadXRegister(s.x, ins.rn)
  IN IF ins.op = "BLR"
       THEN [s EXCEPT !.x = WriteXRegister(@, kLinkRegCode,
                                           Add64(s.pc, kInstructionSize)),
                      !.pc = target]
       ELSE [s EXCEPT !.pc = target]

\* a BR arm that lets the simulation run on behind the branch
VisitBR_fallThrough(s, ins, q) ==
  LET target == ReadXRegister(s.x, ins.rn)
  IN IF target = q.pTestSuspend
       THEN [RuntimeCallVoid(s, q.pTestSuspend)
               EXCEPT !.pc = Add64(s.pc, kInstructionSize)]
       ELSE DefaultVisit(s, ins)

\* the BR arm, lines 95-131
VisitBR(s, ins, q) ==
  LET target == ReadXRegister(s.x, ins.rn)
      lr == ReadXRegister(s.x, kLinkRegCode)
  IN IF target = q.pTestSuspend
       THEN [RuntimeCallVoid(s, q.pTestSuspend) EXCEPT !.pc = lr]
       ELSE DefaultVisit(s, ins)

\* a BLR arm that answers every address of the table, the suspend check
\* included
VisitBLR_anyTable(s, ins, q, ret) ==
  LET target == ReadXRegister(s.x, ins.rn)
      lr == Add64(s.pc, kInstructionSize)
  IN IF target = q.pTestSuspend
       THEN [RuntimeCallVoid(s, q.pTestSuspend) EXCEPT !.pc = lr]
     ELSE IF target = q.pAllocObjectInitialized
       THEN [RuntimeCallNonVoid1(s, q.pAllocObjectInitialized, ret)
               EXCEPT !.pc = lr]
     ELSE IF \/ target = q.pAllocArrayResolved8
             \/ target = q.pAllocArrayResolved16
             \/ target = q.pAllocArrayResolved32
             \/ target = q.pAllocArrayResolved64
       THEN [RuntimeCallNonVoid2(s, target, ret) EXCEPT !.pc = lr]
     ELSE DefaultVisit(s, ins)

\* a BLR arm that knows the object allocation only
VisitBLR_objectOnly(s, ins, q, ret) ==
  LET target == ReadXRegister(s.x, ins.rn)
      lr == Add64(s.pc, kInstructionSize)
  IN IF target = q.pAllocObjectInitialized
       THEN [RuntimeCallNonVoid1(s, q.pAllocObjectInitialized, ret)
               EXCEPT !.pc = lr]
       ELSE DefaultVisit(s, ins)

\* the BLR arm, lines 132-150
VisitBLR(s, ins, q, ret) ==
  LET target == ReadXRegister(s.x, ins.rn)
      lr == Add64(s.pc, kInstructionSize)
  IN IF target = q.pAllocObjectInitialized
       THEN [RuntimeCallNonVoid1(s, q.pAllocObjectInitialized, ret)
               EXCEPT !.pc = lr]
     ELSE IF \/ target = q.pAllocArrayResolved8
             \/ target = q.pAllocArrayResolved16
             \/ target = q.pAllocArrayResolved32
             \/ target = q.pAllocArrayResolved64
       THEN [RuntimeCallNonVoid2(s, target, ret) EXCEPT !.pc = lr]
     ELSE DefaultVisit(s, ins)

\* an override whose last line is missing: RET is not simulated at all
VisitUnconditionalBranchToRegister_noDefault(s, ins, has, q, ret, debug) ==
  IF ~has /\ (debug \/ ins.op \in {"BR", "BLR"})
    THEN [s EXCEPT !.status = "fatal"]
  ELSE IF ins.op = "BR" THEN VisitBR(s, ins, q)
  ELSE IF ins.op = "BLR" THEN VisitBLR(s, ins, q, ret)
  ELSE [s EXCEPT !.pc = Add64(s.pc, kInstructionSize)]

\* CustomSimulator::VisitUnconditionalBranchToRegister.  s = [x, v, sp, pc,
\* calls, status], q = *qpoints_ (has = qpoints_ != nullptr), ret = what the
\* host function returns, debug = kIsDebugBuild (DCHECK is compiled in)
VisitUnconditionalBranchToRegister(s, ins, has, q, ret, debug) ==
  IF ~has /\ (debug \/ ins.op \in {"BR", "BLR"})
    THEN [s EXCEPT !.status = "fatal"]
  ELSE IF ins.op = "BR" THEN VisitBR(s, ins, q)
  ELSE IF ins.op = "BLR" THEN VisitBLR(s, ins, q, ret)
  ELSE DefaultVisit(s, ins)

\* every other instruction is the simulator's business: it writes a
\* register and moves on to the next instruction
OtherInstruction(s, ins) ==
  LET next == Add64(s.pc, kInstructionSize)
  IN CASE ins.op = "LDR"  -> [s EXCEPT !.x = WriteXRegister(@, ins.rn, ins.imm),
                                       !.pc = next]
       [] ins.op = "FMOV" -> [s EXCEPT !.v = WriteDRegister(@, ins.rn, ins.imm),
                                       !.pc = next]
       [] ins.op = "SUBSP" -> [s EXCEPT !.sp = @ - ins.imm[1], !.pc = next]
       [] ins.op = "BL"   -> [s EXCEPT !.x = WriteXRegister(@, kLinkRegCode, next),
                                       !.pc = ins.imm]

BranchOps == {"BR", "BLR", "RET"}

\* Simulator::ExecuteInstruction
ExecuteInstruction(s, ins, has, q, ret, debug) ==
  IF ins.op \in BranchOps
    THEN VisitUnconditionalBranchToRegister(s, ins, has, q, ret, debug)
    ELSE OtherInstruction(s, ins)

Instr(op, rn, imm) == [op |-> op, rn |-> rn, imm |-> imm]

NoInstr == Instr("none", 0, NullPtr)

\* the registers compiled code branches through: the thunk register ip0
\* (LDR x16, [...]; BR x16) and the link register
BranchInstrs == {Instr(op, rn, NullPtr) : op \in BranchOps, rn \in {16, 30}}

ServiceAddrs == {EntryPoints.pTestSuspend, EntryPoints.pAllocObjectInitialized,
                 EntryPoints.pAllocArrayResolved8, EntryPoints.pAllocArrayResolved16,
                 EntryPoints.pAllocArrayResolved32, EntryPoints.pAllocArrayResolved64}

\* what the host allocation functions return
NativeReturns == {Ptr(Host.heap), NullPtr}

----------------------------------------------------------------------------
(* CodeSimulatorArm64: the facade.                                         *)

\* a GetResultFromShorty without its 'V' case
GetResultFromShorty_noVoid(res, shorty, x, v) ==
  CASE shorty[1] = "D" -> ReadDRegister(v, 0)
    [] shorty[1] = "F" -> <<ReadSRegister(v, 0), res[2]>>
    [] OTHER -> ReadXRegister(x, 0)

\* CodeSimulatorArm64::GetResultFromShorty; JValue::SetF writes one word of
\* the union, SetD and SetJ both
GetResultFromShorty(res, shorty, x, v) ==
  CASE shorty[1] = "V" -> res
    [] shorty[1] = "D" -> ReadDRegister(v, 0)
    [] shorty[1] = "F" -> <<ReadSRegister(v, 0), res[2]>>
    [] OTHER -> ReadXRegister(x, 0)

\* GetQuickCodeFromArtMethod
GetQuickCodeFromArtMethod(method) ==
  IF method.code # NullPtr THEN method.code ELSE NullPtr

\* argument-buffer words a signature takes: two for long/double, else one
RECURSIVE ParamWords(_, _)
ParamWords(shorty, i) ==
  IF i > Len(shorty) THEN 0
  ELSE (IF shorty[i] \in {"J", "D"} THEN 2 ELSE 1) + ParamWords(shorty, i + 1)

NumWords(shorty, isStatic) ==
  ParamWords(shorty, 2) + (IF isStatic THEN 0 ELSE 1)

\* the argument buffers a caller passes for n words
ArgBuffers(n) == {[i \in 1..n |-> 41 + i],
                  [i \in 1..n |-> IF i % 2 = 1 THEN 42 ELSE 0]}

\* words the host memory behind an argument buffer may hold
JunkWords == {0, 77}

\* a method with compiled code, and one without
Methods == {[ptr |-> 6000, code |-> Ptr(Host.code)],
            [ptr |-> 6100, code |-> NullPtr]}

Threads == {[ptr |-> Host.self, is_gc_marking |-> g] : g \in BOOLEAN}

\* the JValue the caller passes in
ResultInit == <<901, 902>>

NoCall == [method |-> [ptr |-> 0, code |-> NullPtr], args |-> <<>>,
           args_size_in_bytes |-> 0, self |-> [ptr |-> 0, is_gc_marking |-> FALSE],
           shorty |-> <<"V">>, isStatic |-> TRUE]

SavedBlock(m, base) == [i \in 1..15 |-> Load64(m, base + kXRegSizeInBytes * (i - 1))]

\* what the simulated code finds at its entry: the registers, the stack
\* pointer, the saved registers as written, and the null ArtMethod* with the
\* outgoing arguments at the stack pointer
EntrySnapshot(x, v, s, m, saved_sp, c) ==
  [x |-> x, v |-> v, sp |-> s,
   saved |-> SavedBlock(m, saved_sp + 3 * 8),
   outs |-> [i \in 1..(2 + (c.args_size_in_bytes \div 4)) |-> m[s + 4 * (i - 1)]]]

NoEntry == [x |-> BaselineX, v |-> BaselineV, sp |-> StackTop, saved |-> <<>>,
            outs |-> <<>>]

NoRet == [x0 |-> NullPtr, v0 |-> NullPtr]

\* Invoke is called (lines 241-252)
Invoke(shorties, methods) ==
  /\ pc \in {"idle", "done"}
  /\ \E sh \in shorties, st \in BOOLEAN, m \in methods, t \in Threads :
       \E args \in ArgBuffers(NumWords(sh, st)) :
         call' = [method |-> m, args |-> args,
                  args_size_in_bytes |-> 4 * Len(args), self |-> t,
                  shorty |-> sh, isStatic |-> st]
  /\ result' = ResultInit
  /\ pc' = "init"
  /\ entry_sp' = sp
  /\ native_calls' = <<>>
  /\ steps' = 0
  /\ cur_instr' = NoInstr
  /\ entry_state' = NoEntry
  /\ ret_state' = NoRet
  /\ UNCHANGED <<xreg, vreg, sp, sim_pc, mem, saved_sp_, qpoints_, quick_code>>
  /\ UNCHANGED policyVars

\* line 254
InvokeInitRegisters ==
  /\ pc = "init"
  /\ \E junk \in JunkWords, ub \in UnreachableOutcomes :
       LET r == InitRegistersForInvokeStub(
                  [x |-> xreg, v |-> vreg, sp |-> sp, mem |-> mem], call, junk, ub)
       IN /\ xreg' = r.x
          /\ vreg' = r.v
          /\ sp' = r.sp
          /\ mem' = r.mem
          /\ saved_sp_' = r.saved_sp
          /\ pc' = IF r.status = "ok" THEN "resolve" ELSE "fatal"
  /\ UNCHANGED <<sim_pc, qpoints_, call, result, quick_code, native_calls,
                 cur_instr, steps, entry_sp, entry_state, ret_state>>
  /\ UNCHANGED policyVars

\* line 256
InvokeGetQuickCode ==
  /\ pc = "resolve"
  /\ quick_code' = GetQuickCodeFromArtMethod(call.method)
  /\ pc' = "run"
  /\ UNCHANGED <<xreg, vreg, sp, sim_pc, mem, saved_sp_, qpoints_, call, result,
                 native_calls, cur_instr, steps, entry_sp, entry_state, ret_state>>
  /\ UNCHANGED policyVars

\* line 257, CodeSimulatorArm64::RunFrom: WritePc(code_buffer), then Run()
InvokeRunFrom ==
  /\ pc = "run"
  /\ sim_pc' = quick_code
  /\ pc' = "running"
  /\ entry_state' = EntrySnapshot(xreg, vreg, sp, mem, saved_sp_, call)
  /\ UNCHANGED <<xreg, vreg, sp, mem, saved_sp_, qpoints_, call, result,
                 quick_code, native_calls, cur_instr, steps, entry_sp, ret_state>>
  /\ UNCHANGED policyVars

\* Simulator::Run: while (pc_ != kEndOfSimAddress) ExecuteInstruction();
\* instrs = the instructions the code may hold at pc_, max = the length of
\* the runs explored
Step(instrs, max) ==
  /\ pc = "running"
  /\ sim_pc # kEndOfSimAddress
  /\ steps < max
  /\ \E ins \in instrs, ret \in NativeReturns, debug \in BOOLEAN :
       LET s == [x |-> xreg, v |-> vreg, sp |-> sp, pc |-> sim_pc,
                 calls |-> native_calls, status |-> "ok"]
           t == ExecuteInstruction(s, ins, qpoints_ # NoEntryPoints, qpoints_,
                                   ret, debug)
       IN /\ xreg' = t.x
          /\ vreg' = t.v
          /\ sp' = t.sp
          /\ sim_pc' = t.pc
          /\ native_calls' = t.calls
          /\ pc' = IF t.status = "ok" THEN "running" ELSE "fatal"
          /\ cur_instr' = ins
  /\ steps' = steps + 1
  /\ UNCHANGED <<mem, saved_sp_, qpoints_, call, result, quick_code, entry_sp,
                 entry_state, ret_state>>
  /\ UNCHANGED policyVars

\* Simulator::Run leaves its loop: RunFrom returns to Invoke
InvokeRunReturns ==
  /\ pc = "running"
  /\ sim_pc = kEndOfSimAddress
  /\ pc' = "extract"
  /\ ret_state' = [x0 |-> xreg[0], v0 |-> vreg[0]]
  /\ UNCHANGED <<xreg, vreg, sp, sim_pc, mem, saved_sp_, qpoints_, call, result,
                 quick_code, native_calls, cur_instr, steps, entry_sp, entry_state>>
  /\ UNCHANGED policyVars

\* an Invoke that resets the simulator first and reads the result then
InvokeGetResult_afterReset ==
  /\ pc = "extract"
  /\ xreg' = BaselineX
  /\ vreg' = BaselineV
  /\ result' = GetResultFromShorty(result, call.shorty, BaselineX, BaselineV)
  /\ pc' = "reset"
  /\ UNCHANGED <<sp, sim_pc, mem, saved_sp_, qpoints_, call,
                 quick_code, native_calls, cur_instr, steps, entry_sp,
                 entry_state, ret_state>>
  /\ UNCHANGED policyVars

\* line 259
InvokeGetResult ==
  /\ pc = "extract"
  /\ result' = GetResultFromShorty(result, call.shorty, xreg, vreg)
  /\ pc' = "reset"
  /\ UNCHANGED <<xreg, vreg, sp, sim_pc, mem, saved_sp_, qpoints_, call,
                 quick_code, native_calls, cur_instr, steps, entry_sp,
                 entry_state, ret_state>>
  /\ UNCHANGED policyVars

\* an Invoke that does not reset the simulator
InvokeResetState_skip ==
  /\ pc = "reset"
  /\ pc' = "restore"
  /\ UNCHANGED <<xreg, vreg, sp, sim_pc, mem, saved_sp_, qpoints_, call, result,
                 quick_code, native_calls, cur_instr, steps, entry_sp,
                 entry_state, ret_state>>
  /\ UNCHANGED policyVars

\* lines 261-262, Simulator::ResetState: every register and flag back to its
\* baseline; the stack pointer is either left alone or back at the top
InvokeResetState ==
  /\ pc = "reset"
  /\ xreg' = BaselineX
  /\ vreg' = BaselineV
  /\ sim_pc' = NullPtr
  /\ sp' \in {sp, StackTop}
  /\ pc' = "restore"
  /\ UNCHANGED <<mem, saved_sp_, qpoints_, call, result, quick_code,
                 native_calls, cur_instr, steps, entry_sp, entry_state, ret_state>>
  /\ UNCHANGED policyVars

\* an Invoke that forgets to write the stack pointer back
InvokeWriteSp_skip ==
  /\ pc = "restore"
  /\ pc' = "done"
  /\ UNCHANGED <<xreg, vreg, sp, sim_pc, mem, saved_sp_, qpoints_, call, result,
                 quick_code, native_calls, cur_instr, steps, entry_sp,
                 entry_state, ret_state>>
  /\ UNCHANGED policyVars

\* lines 264-265
InvokeWriteSp ==
  /\ pc = "restore"
  /\ sp' = saved_sp_
  /\ pc' = "done"
  /\ UNCHANGED <<xreg, vreg, sim_pc, mem, saved_sp_, qpoints_, call, result,
                 quick_code, native_calls, cur_instr, steps, entry_sp,
                 entry_state, ret_state>>
  /\ UNCHANGED policyVars

\* CodeSimulatorArm64::InitEntryPoints(qpoints) ->
\* CustomSimulator::SetEntryPoints(qpoints); the DCHECK stops a debug build
\* only.  tables = the QuickEntryPoints the callers hand in
InitEntryPoints(tables) ==
  /\ pc \in {"idle", "done"}
  /\ \E qpoints \in tables, debug \in BOOLEAN :
       IF debug /\ qpoints_ # NoEntryPoints
         THEN pc' = "fatal" /\ UNCHANGED qpoints_
         ELSE qpoints_' = qpoints /\ UNCHANGED pc
  /\ UNCHANGED <<xreg, vreg, sp, sim_pc, mem, saved_sp_, call, result,
                 quick_code, native_calls, cur_instr, steps, entry_sp,
                 entry_state, ret_state>>
  /\ UNCHANGED policyVars

\* CodeSimulatorArm64::CanSimulate(method), name = method->PrettyMethod()
QueryCanSimulate ==
  /\ pc \in {"idle", "done"}
  /\ can_simulate = <<>>
  /\ can_simulate' = <<CanSimulate(allow_mode, name)>>
  /\ UNCHANGED <<name, allow_mode>>
  /\ UNCHANGED facadeVars

----------------------------------------------------------------------------
(* Inputs and specifications.                                              *)

\* the state the constructors leave (CustomSimulator: qpoints_(nullptr);
\* Simulator: ResetState, sp at the top of the stack)
InitSimulator(top) ==
  /\ pc = "idle"
  /\ xreg = BaselineX
  /\ vreg = BaselineV
  /\ sp = top
  /\ sim_pc = NullPtr
  /\ mem = [b \in {} |-> 0]
  /\ saved_sp_ = 0
  /\ qpoints_ = NoEntryPoints
  /\ call = NoCall
  /\ result = ResultInit
  /\ quick_code = NullPtr
  /\ native_calls = <<>>
  /\ cur_instr = NoInstr
  /\ steps = 0
  /\ entry_sp = top
  /\ entry_state = NoEntry
  /\ ret_state = NoRet

InitFacade == InitSimulator(StackTop)

InitPolicy ==
  /\ name = <<>>
  /\ can_simulate = <<>>

\* signatures of the methods invoked on the facade
FacadeShorties == {<<"I">>, <<"F">>, <<"D">>, <<"V", "J">>}

\* the instructions of the simulated code
FacadeInstrs ==
  {Instr("RET", 30, NullPtr), Instr("BR", 16, NullPtr), Instr("BLR", 16, NullPtr),
   Instr("LDR", 16, EntryPoints.pTestSuspend),
   Instr("LDR", 16, EntryPoints.pAllocArrayResolved32),
   Instr("LDR", 0, Ptr(7)), Instr("FMOV", 0, <<1, 2>>),
   Instr("SUBSP", 31, Ptr(16))}

Init ==
  /\ InitFacade
  /\ InitPolicy
  /\ allow_mode = kEnableSimulateMethodAllowList

Next ==
  \/ InitEntryPoints({EntryPoints})
  \/ Invoke(FacadeShorties, Methods)
  \/ InvokeInitRegisters
  \/ InvokeGetQuickCode
  \/ InvokeRunFrom
  \/ Step(FacadeInstrs, MaxSteps)
  \/ InvokeRunReturns
  \/ InvokeGetResult
  \/ InvokeResetState
  \/ InvokeWriteSp

Spec == Init /\ [][Next]_vars

\* the parameter lists the marshaller is exercised with: a run of integer
\* class parameters and a run of floating-point ones, in either order, and
\* the two classes alternating
IntTag(i) == <<"I", "J", "L">>[(i % 3) + 1]

FpTag(i) == <<"F", "D">>[(i % 2) + 1]

IntRun(n) == [i \in 1..n |-> IntTag(i)]

FpRun(n) == [i \in 1..n |-> FpTag(i)]

Alternating(n) == [i \in 1..n |-> IF i % 2 = 1 THEN IntTag(i) ELSE FpTag(i)]

PackShorties ==
  {<<"V">> \o IntRun(a) \o FpRun(b) : a \in 0..MaxRun, b \in 0..MaxRun} \cup
  {<<"V">> \o FpRun(b) \o IntRun(a) : a \in 0..MaxRun, b \in 0..MaxRun} \cup
  {<<"V">> \o Alternating(n) : n \in 0..(2 * MaxRun)}

CompiledMethods == {m \in Methods : m.code # NullPtr}

NextPack ==
  \/ Invoke(PackShorties, CompiledMethods)
  \/ InvokeInitRegisters

SpecPack == Init /\ [][NextPack]_vars

\* the simulated code the interceptor is exercised with
BranchSpecShorties == {<<"I">>, <<"I", "J">>}

BranchSpecInstrs ==
  BranchInstrs \cup
  {Instr("LDR", 16, a) : a \in ServiceAddrs \cup {Ptr(Host.other_code)}} \cup
  {Instr("LDR", 30, a) : a \in {Ptr(Host.other_code), EntryPoints.pTestSuspend,
                                EntryPoints.pAllocObjectInitialized}} \cup
  {Instr("BL", 30, Ptr(Host.other_code))}

NextBranch ==
  \/ InitEntryPoints({EntryPoints})
  \/ Invoke(BranchSpecShorties, CompiledMethods)
  \/ InvokeInitRegisters
  \/ InvokeGetQuickCode
  \/ InvokeRunFrom
  \/ Step(BranchSpecInstrs, MaxSteps)
  \/ InvokeRunReturns
  \/ InvokeGetResult
  \/ InvokeResetState
  \/ InvokeWriteSp

SpecBranch == Init /\ [][NextBranch]_vars

\* the method names the policy is asked about
Fragments == {
  <<>>,
  kSimulateMarker,
  <<"$","s","i","m","u","l","a","t","e">>,
  <<"$">>,
  <<"m","a","i","n">>,
  <<"m","a">>,
  <<"i","n">>,
  <<"<","c","l","i","n","i","t",">">>,
  <<"j","a","v","a",".">>,
  <<"a","v","a",".">>,
  <<"j">>,
  <<"s","u","n",".">>,
  <<"l","i","b","c","o","r","e",".">>,
  <<"F","o","o",".","b","a","r">>,
  simulate_method_allow_list[1],
  <<"o","t","h","e","r",".","T","e","s","t","B","y","t","e",".","t","e","s","t","D","o","t","P","r","o","d">>,
  <<"C","o","m","p","l","e","x">> }

RECURSIVE NamesOf(_)
NamesOf(k) ==
  IF k = 0 THEN {<<>>}
  ELSE {f \o n : f \in Fragments, n \in NamesOf(k - 1)}

Names == NamesOf(MaxFragments) \ {<<>>}

\* the method asked about and the build's allow-list switch are inputs
InitPolicySpec ==
  /\ InitFacade
  /\ name \in Names
  /\ can_simulate = <<>>
  /\ allow_mode \in BOOLEAN

NextPolicy ==
  \/ InitEntryPoints({EntryPoints})
  \/ QueryCanSimulate

SpecPolicy == InitPolicySpec /\ [][NextPolicy]_vars

\* the tables callers register, and code that branches into either of them
QuickEntryPointTables == {EntryPoints, OtherEntryPoints}

TableSpecShorties == {<<"I">>}

TableSpecInstrs ==
  {Instr("RET", 30, NullPtr), Instr("BR", 16, NullPtr), Instr("BLR", 16, NullPtr),
   Instr("LDR", 16, EntryPoints.pAllocObjectInitialized),
   Instr("LDR", 16, OtherEntryPoints.pAllocObjectInitialized),
   Instr("LDR", 16, OtherEntryPoints.pTestSuspend)}

NextTable ==
  \/ InitEntryPoints(QuickEntryPointTables)
  \/ Invoke(TableSpecShorties, CompiledMethods)
  \/ InvokeInitRegisters
  \/ InvokeGetQuickCode
  \/ InvokeRunFrom
  \/ Step(TableSpecInstrs, MaxSteps)
  \/ InvokeRunReturns
  \/ InvokeGetResult
  \/ InvokeResetState
  \/ InvokeWriteSp

SpecTable == Init /\ [][NextTable]_vars

\* code that reaches several runtime services in one run
OrderSpecShorties == {<<"V">>}

OrderSpecInstrs ==
  {Instr("RET", 30, NullPtr), Instr("BR", 16, NullPtr), Instr("BLR", 16, NullPtr),
   Instr("LDR", 16, EntryPoints.pAllocArrayResolved8),
   Instr("LDR", 16, EntryPoints.pTestSuspend)}

NextOrder ==
  \/ InitEntryPoints({EntryPoints})
  \/ Invoke(OrderSpecShorties, CompiledMethods)
  \/ InvokeInitRegisters
  \/ InvokeGetQuickCode
  \/ InvokeRunFrom
  \/ Step(OrderSpecInstrs, MaxOrderSteps)
  \/ InvokeRunReturns
  \/ InvokeGetResult
  \/ InvokeResetState
  \/ InvokeWriteSp

SpecOrder == Init /\ [][NextOrder]_vars

\* the marshaller on simulators whose stacks end at different addresses
\* (the stack is host memory VIXL allocates)
StackTops == {StackTop, StackTop + 8, StackTop + 16}

InitFrame ==
  /\ \E top \in StackTops : InitSimulator(top)
  /\ InitPolicy
  /\ allow_mode = kEnableSimulateMethodAllowList

\* argument buffers of every size from none to a dozen words
FrameShorties == {<<"V">> \o IntRun(n) : n \in 0..MaxRun}

NextFrame ==
  \/ Invoke(FrameShorties, CompiledMethods)
  \/ InvokeInitRegisters

SpecFrame == InitFrame /\ [][NextFrame]_vars

\* signatures with many integer-class parameters, up to the entry of the
\* simulated code
ContextShorties == {<<"V">> \o IntRun(n) : n \in 0..MaxIntParams}

NextContext ==
  \/ Invoke(ContextShorties, CompiledMethods)
  \/ InvokeInitRegisters
  \/ InvokeGetQuickCode
  \/ InvokeRunFrom

SpecContext == Init /\ [][NextContext]_vars

----------------------------------------------------------------------------
(* The claims.                                                             *)

\* positions of Invoke behind the return of RunFrom
AfterRun == {"extract", "reset", "restore", "done"}

\* a transition that executes one simulated instruction
IsStep == steps' = steps + 1

\* C1: when an Invoke has returned, the simulated stack pointer is what it
\* was immediately before that Invoke was called.
C1_StackPointerRestored == pc = "done" => sp = entry_sp

\* an Invoke that took arguments on a frame below the caller's sp, had a
\* branch intercepted and returned
C1_Witness ==
  /\ pc = "done"
  /\ call.args_size_in_bytes > 0
  /\ entry_state.sp < entry_sp
  /\ Len(native_calls) > 0
  /\ sp = entry_sp

IsFpTag(t) == t \in {"D", "F"}

\* integer-class parameters, the 'this' of an instance call included
NumInt(c) ==
  (IF c.isStatic THEN 0 ELSE 1)
    + Cardinality({i \in 2..Len(c.shorty) : ~IsFpTag(c.shorty[i])})

NumFp(c) == Cardinality({i \in 2..Len(c.shorty) : IsFpTag(c.shorty[i])})

WithinBudget(c) == NumInt(c) <= 7 /\ NumFp(c) <= 8

\* index of the first buffer word of parameter i of the shorty
WordOf(c, i) ==
  (IF c.isStatic THEN 1 ELSE 2)
    + (i - 2)
    + Cardinality({j \in 2..(i - 1) : c.shorty[j] \in {"J", "D"}})

\* the value of parameter i, reinterpreted per its declared width
ValueOf(c, i) ==
  IF c.shorty[i] \in {"J", "D"}
    THEN <<c.args[WordOf(c, i)], c.args[WordOf(c, i) + 1]>>
    ELSE <<c.args[WordOf(c, i)], 0>>

\* the register parameter i belongs in: x1.. / v0.. in order of appearance
RegOf(c, i) ==
  IF IsFpTag(c.shorty[i])
    THEN Cardinality({j \in 2..i : IsFpTag(c.shorty[j])}) - 1
    ELSE (IF c.isStatic THEN 0 ELSE 1)
           + Cardinality({j \in 2..i : ~IsFpTag(c.shorty[j])})

ArgumentsInRegisters(c) ==
  /\ ~c.isStatic => xreg[1] = <<c.args[1], 0>>
  /\ \A i \in 2..Len(c.shorty) :
       IF IsFpTag(c.shorty[i]) THEN vreg[RegOf(c, i)] = ValueOf(c, i)
                               ELSE xreg[RegOf(c, i)] = ValueOf(c, i)
  /\ \A n \in 0..31 : n >= NumFp(c) => vreg[n] = BaselineV[n]

\* InitRegistersForInvokeStub has run for the Invoke in flight
Packed == pc \in {"resolve", "fatal"}

\* C2: for a signature with at most 7 integer-class and at most 8
\* floating-point parameters, packing completes without a fatal failure and
\* every parameter is in its register (x1.. and v0.. in order), holding the
\* buffer value at its declared width; floating registers no parameter
\* belongs in are untouched.
C2_PackWithinBudget ==
  (Packed /\ WithinBudget(call))
    => (pc = "resolve" /\ ArgumentsInRegisters(call))

\* C3: packing fails fatally exactly when a register cursor exceeds the
\* budget of its class: always when it does, never when it does not, by the
\* same test for both classes.
C3_FatalIffOverBudget ==
  Packed => (pc = "fatal" <=> ~WithinBudget(call))

AllocArrayAddrs(q) == {q.pAllocArrayResolved8, q.pAllocArrayResolved16,
                       q.pAllocArrayResolved32, q.pAllocArrayResolved64}

AllocAddrs(q) == {q.pAllocObjectInitialized} \cup AllocArrayAddrs(q)

TableAddrs(q) == {q.pTestSuspend} \cup AllocAddrs(q)

\* the register the instruction just executed branched through, before it
BranchTarget == ReadXRegister(xreg, cur_instr'.rn)

\* C4: a BLR whose target is a registered allocation entry point calls the
\* host function at that address exactly once, with x0 (and w1 for the array
\* variants), puts the returned pointer in x0 and continues at the
\* instruction behind the BLR; nothing else of the simulated state changes.
C4_BlrIntercepted ==
  [][(/\ IsStep
      /\ cur_instr'.op = "BLR"
      /\ qpoints_ # NoEntryPoints
      /\ BranchTarget \in AllocAddrs(qpoints_))
     => (/\ Len(native_calls') = Len(native_calls) + 1
         /\ SubSeq(native_calls', 1, Len(native_calls)) = native_calls
         /\ LET n == native_calls'[Len(native_calls')]
            IN /\ n.fn = BranchTarget
               /\ n.args = IF BranchTarget = qpoints_.pAllocObjectInitialized
                             THEN <<xreg[0]>>
                             ELSE <<xreg[0], <<xreg[1][1], 0>>>>
               /\ xreg'[0] = n.ret[1]
         /\ sim_pc' = Add64(sim_pc, kInstructionSize)
         /\ \A r \in 1..30 : xreg'[r] = xreg[r]
         /\ vreg' = vreg /\ sp' = sp /\ pc' = "running")]_vars

\* the array allocation for 32-bit elements was called with the low word of
\* an x1 whose high word is not zero
C4_Witness ==
  /\ pc = "running"
  /\ cur_instr.op = "BLR"
  /\ Len(native_calls) = 1
  /\ native_calls[1].fn = EntryPoints.pAllocArrayResolved32
  /\ native_calls[1].args = <<Ptr(6000), Ptr(42)>>
  /\ xreg[1] = <<42, 43>>
  /\ xreg[0] = Ptr(Host.heap)
  /\ sim_pc = Ptr(Host.code + 8)

\* C5: a BR whose target is the registered suspend-check entry point calls
\* that host function exactly once, without arguments, writes no register,
\* and continues at the address the link register held.
C5_BrIntercepted ==
  [][(/\ IsStep
      /\ cur_instr'.op = "BR"
      /\ qpoints_ # NoEntryPoints
      /\ BranchTarget = qpoints_.pTestSuspend)
     => (/\ native_calls' = Append(native_calls,
                              [fn |-> qpoints_.pTestSuspend, args |-> <<>>,
                               ret |-> <<>>])
         /\ sim_pc' = xreg[kLinkRegCode]
         /\ xreg' = xreg /\ vreg' = vreg /\ sp' = sp /\ pc' = "running")]_vars

\* the suspend check was called from the second instruction of the code and
\* the simulation continues at the address in the link register, which is
\* neither the branch target nor the instruction behind the branch
C5_Witness ==
  /\ pc = "running"
  /\ cur_instr = Instr("BR", 16, NullPtr)
  /\ steps = 2
  /\ native_calls = <<[fn |-> EntryPoints.pTestSuspend, args |-> <<>>,
                       ret |-> <<>>]>>
  /\ xreg[16] = EntryPoints.pTestSuspend
  /\ xreg[kLinkRegCode] = kEndOfSimAddress
  /\ sim_pc = kEndOfSimAddress

\* C6: with the entry points registered, an indirect branch (BR, BLR or RET)
\* to an address that is no entry of the table changes the simulated state
\* exactly as the default simulator does and calls no host function.
C6_MissIsDefault ==
  [][(/\ IsStep
      /\ cur_instr'.op \in BranchOps
      /\ qpoints_ # NoEntryPoints
      /\ BranchTarget \notin TableAddrs(qpoints_))
     => LET d == DefaultVisit([x |-> xreg, v |-> vreg, sp |-> sp,
                               pc |-> sim_pc, calls |-> native_calls,
                               status |-> "ok"], cur_instr')
        IN /\ xreg' = d.x /\ vreg' = d.v /\ sp' = d.sp /\ sim_pc' = d.pc
           /\ native_calls' = native_calls
           /\ pc' = "running"]_vars

\* a RET through a link register that holds ordinary code has been simulated
C6_Witness ==
  /\ pc = "running"
  /\ qpoints_ = EntryPoints
  /\ cur_instr = Instr("RET", 30, NullPtr)
  /\ sim_pc = Ptr(Host.other_code)
  /\ native_calls = <<>>

\* C7: the simulator is never started for a method without compiled code:
\* Invoke fails fatally before.
C7_NoRunWithoutCode ==
  (call.method.code = NullPtr) => pc \notin ({"running"} \cup AfterRun)

\* the simulator state InitRegistersForInvokeStub makes of a simulator just
\* constructed, for the parameters c
FreshEntry(c, junk, ub) ==
  LET r == InitRegistersForInvokeStub(
             [x |-> BaselineX, v |-> BaselineV, sp |-> StackTop,
              mem |-> [b \in {} |-> 0]], c, junk, ub)
  IN EntrySnapshot(r.x, r.v, r.sp, r.mem, r.saved_sp, c)

\* C8: an Invoke that has returned leaves the registers and the stack
\* pointer as the constructor left them, and the registers, the stack
\* pointer and the frame words written for the simulated code (saved
\* registers, null method slot, outgoing arguments) are at its entry those a
\* fresh simulator would hold for the same parameters, whatever ran before.
C8_NoCarryOver ==
  /\ pc = "done" => (xreg = BaselineX /\ vreg = BaselineV /\ sp = StackTop)
  /\ pc \in ({"running"} \cup AfterRun)
       => \E junk \in JunkWords, ub \in UnreachableOutcomes :
            entry_state = FreshEntry(call, junk, ub)

\* a method without arguments is entered on a stack that still holds the
\* frame of an earlier invocation with arguments
C8_Witness ==
  /\ pc = "running"
  /\ call.args_size_in_bytes = 0
  /\ entry_state.sp = 896
  /\ 880 \in DOMAIN mem
  /\ steps = 0

\* C9: the result slot is left alone for 'V', receives d0 for 'D', s0 (in
\* its first word) for 'F' and x0 for every other return type, each as the
\* simulated code left it at its return.
C9_ResultByReturnType ==
  pc \in {"reset", "restore", "done"}
    => CASE call.shorty[1] = "V" -> result = ResultInit
         [] call.shorty[1] = "D" -> result = ret_state.v0
         [] call.shorty[1] = "F" -> result[1] = ret_state.v0[1]
         [] OTHER -> result = ret_state.x0

\* a method of signature "I" whose code left 7 in x0 has returned 7
C9_Witness ==
  /\ pc = "done"
  /\ call.shorty = <<"I">>
  /\ ret_state.x0 = Ptr(7)
  /\ result = Ptr(7)

\* the three rules of the eligibility policy, first match wins
Eligible(mode, str) ==
  \/ Contains(str, kSimulateMarker)
  \/ /\ ~Contains(str, kSimulateMarker)
     /\ mode
     /\ \E i \in 1..Len(simulate_method_allow_list) :
          Contains(str, simulate_method_allow_list[i])
  \/ /\ ~Contains(str, kSimulateMarker)
     /\ ~mode
     /\ \A i \in 1..Len(avoid_simulation_method_list) :
          ~Contains(str, avoid_simulation_method_list[i])

\* C10: the answer of CanSimulate is the one the three ordered rules give
\* for the method name, and a query changes nothing of the facade or the
\* simulator.
C10_CanSimulateRules ==
  /\ [](can_simulate # <<>> => (can_simulate[1] <=> Eligible(allow_mode, name)))
  /\ [][can_simulate' # can_simulate => UNCHANGED facadeVars]_vars

\* a name with the marker and a deny-list entry was found eligible, with the
\* entry points registered before
C10_Witness ==
  /\ name = kSimulateMarker \o <<"m","a","i","n">>
  /\ ~allow_mode
  /\ can_simulate = <<TRUE>>
  /\ qpoints_ = EntryPoints

\* C11: the interception table is set in every state from the constructor's
\* return on, and once set it is never changed: a later registration does
\* not replace it.
C11_TablePopulatedOnce ==
  /\ [](qpoints_ # NoEntryPoints)
  /\ [][qpoints_' = qpoints_]_vars

\* the instruction just executed is a branch the interceptor answers
Intercepted ==
  /\ qpoints_ # NoEntryPoints
  /\ \/ cur_instr'.op = "BR" /\ BranchTarget = qpoints_.pTestSuspend
     \/ cur_instr'.op = "BLR" /\ BranchTarget \in AllocAddrs(qpoints_)

\* C12: within one invocation the host calls are made in the order in which
\* the simulation executes the matching branches: the instruction that is a
\* matching branch appends exactly one call, the one to its target and
\* complete with its return value, behind all earlier calls; no other
\* instruction and no other step of Invoke adds, drops or moves a call (a
\* new Invoke starts with none).
C12_CallsInBranchOrder ==
  [][/\ IsStep =>
          IF Intercepted
            THEN /\ Len(native_calls') = Len(native_calls) + 1
                 /\ SubSeq(native_calls', 1, Len(native_calls)) = native_calls
                 /\ native_calls'[Len(native_calls')].fn = BranchTarget
                 /\ \/ native_calls'[Len(native_calls')].ret = <<>>
                    \/ native_calls'[Len(native_calls')].ret = <<xreg'[0]>>
            ELSE native_calls' = native_calls
     /\ ~IsStep =>
          \/ native_calls' = native_calls
          \/ pc' = "init" /\ native_calls' = <<>>]_vars

\* an array allocation and then the suspend check were called in one run,
\* the allocation's result in x0 before the suspend check was reached
C12_Witness ==
  /\ pc = "running"
  /\ steps = 4
  /\ Len(native_calls) = 2
  /\ native_calls[1].fn = EntryPoints.pAllocArrayResolved8
  /\ native_calls[1].ret = <<Ptr(Host.heap)>>
  /\ native_calls[2].fn = EntryPoints.pTestSuspend
  /\ xreg[0] = Ptr(Host.heap)

\* the transition that is InitRegistersForInvokeStub
IsPack == pc = "init" /\ pc' \in {"resolve", "fatal"}

\* the stack words a transition wrote a new value to
WrittenWords == {b \in DOMAIN mem' : b \notin DOMAIN mem \/ mem'[b] # mem[b]}

kSavedRegs == 15

\* C13: every stack word InitRegistersForInvokeStub writes (null method
\* slot, outgoing arguments, the 15 saved registers) lies in the new frame,
\* at an address from the new stack pointer up to, not including, the
\* previous one.
C13_WritesInsideFrame ==
  [][IsPack => \A b \in WrittenWords : sp' <= b /\ b < saved_sp_']_vars

\* what the frame layout has in the saved-register block, lowest slot first
SavedRegisterValues(x, saved) ==
  <<x[kFp], x[kLinkRegCode], Ptr(Host.result), Ptr(Host.shorty), Ptr(saved),
    Ptr(call.self.ptr)>> \o [i \in 1..9 |-> x[i + 19]]

\* C14: after InitRegistersForInvokeStub the frame pointer is the address
\* of the lowest slot of the saved-register block: the 15 slots from FP end
\* at the previous stack pointer, [FP] holds the caller's frame pointer,
\* [FP + 8] the caller's link register, and the slots above them the other
\* saved registers.
C14_FramePointerAtSavedBlock ==
  [][IsPack =>
       LET fp == xreg'[kFp][1]
       IN /\ xreg'[kFp] = Ptr(fp)
          /\ fp + kSavedRegs * kXRegSizeInBytes = saved_sp_'
          /\ \A i \in 0..(2 * kSavedRegs - 1) : fp + 4 * i \in DOMAIN mem'
          /\ Load64(mem', fp) = xreg[kFp]
          /\ Load64(mem', fp + kXRegSizeInBytes) = xreg[kLinkRegCode]
          /\ SavedBlock(mem', fp) = SavedRegisterValues(xreg, saved_sp_')]_vars

\* C15: the stack pointer InitRegistersForInvokeStub sets is a multiple of
\* 16, leaves at least the 15 saved registers, the method slot and the
\* argument bytes between itself and the previous stack pointer, and the
\* 8-byte slot it points to holds null.
C15_NewSpAlignedAndNull ==
  Packed =>
    /\ saved_sp_ = entry_sp
    /\ sp % 16 = 0
    /\ sp <= saved_sp_ - (kSavedRegs * kXRegSizeInBytes + kXRegSizeInBytes
                           + call.args_size_in_bytes)
    /\ {sp, sp + 4} \subseteq DOMAIN mem
    /\ Load64(mem, sp) = NullPtr

\* three argument words on a stack whose top is not a multiple of 16: the
\* frame of 140 bytes would end at 892 and the stack pointer was aligned
\* down to 880
C15_Witness ==
  /\ pc = "resolve"
  /\ entry_sp = StackTop + 8
  /\ call.args_size_in_bytes = 12
  /\ sp = 880
  /\ Load64(mem, 880) = NullPtr
  /\ mem[888] = call.args[1]

\* C16: the copy of the outgoing arguments writes the words of the argument
\* buffer to the args_size_in_bytes bytes above the null method slot and
\* nothing beyond them: no word between the end of those bytes and the
\* place of the saved registers (the padding of the alignment) is written.
C16_CopyExactSize ==
  [][IsPack =>
       LET outs == sp' + kXRegSizeInBytes
           n == call.args_size_in_bytes
       IN /\ \A i \in 1..(n \div 4) : mem'[outs + 4 * (i - 1)] = call.args[i]
          /\ \A b \in WrittenWords :
               (outs <= b /\ b < saved_sp_' - kSavedRegs * kXRegSizeInBytes)
                 => b < outs + n]_vars

\* C17: with the entry points registered, a BR to an allocation entry
\* point, a BLR to the suspend-check entry point and every RET are simulated
\* as the default simulator does, without a host call.
C17_KindsIndependent ==
  [][(/\ IsStep
      /\ qpoints_ # NoEntryPoints
      /\ \/ cur_instr'.op = "BR" /\ BranchTarget \in AllocAddrs(qpoints_)
         \/ cur_instr'.op = "BLR" /\ BranchTarget = qpoints_.pTestSuspend
         \/ cur_instr'.op = "RET")
     => LET d == DefaultVisit([x |-> xreg, v |-> vreg, sp |-> sp,
                               pc |-> sim_pc, calls |-> native_calls,
                               status |-> "ok"], cur_instr')
        IN /\ xreg' = d.x /\ vreg' = d.v /\ sp' = d.sp /\ sim_pc' = d.pc
           /\ native_calls' = native_calls
           /\ pc' = "running"]_vars

\* a BLR to the suspend check was simulated as an ordinary call: the link
\* register holds the address behind the BLR, the simulation is at the
\* entry point's address and no host function was called
C17_Witness ==
  /\ pc = "running"
  /\ qpoints_ = EntryPoints
  /\ cur_instr = Instr("BLR", 16, NullPtr)
  /\ xreg[16] = EntryPoints.pTestSuspend
  /\ sim_pc = EntryPoints.pTestSuspend
  /\ xreg[kLinkRegCode] = Ptr(Host.code + 8)
  /\ native_calls = <<>>

\* the positions of Invoke in the order of its statements
InvokeOrder == <<"init", "resolve", "run", "running", "extract", "reset",
                 "restore", "done">>

\* C18: an Invoke passes its steps in the order pack, resolve, run, extract,
\* reset, restore (unless it aborts): the result is complete while the
\* registers are still those the simulated code left, it is not touched by
\* the reset or the restore, and behind the restore the registers are the
\* baseline and the stack pointer is the saved one.
C18_FixedStepOrder ==
  /\ [][pc' # pc =>
          \/ pc \in {"idle", "done"} /\ pc' = "init"
          \/ pc' = "fatal"
          \/ \E i \in 1..(Len(InvokeOrder) - 1) :
               pc = InvokeOrder[i] /\ pc' = InvokeOrder[i + 1]]_vars
  /\ [][(pc \in {"reset", "restore"}) => result' = result]_vars
  /\ [](pc = "reset" => (xreg[0] = ret_state.x0 /\ vreg[0] = ret_state.v0))
  /\ [](pc = "restore" => (xreg = BaselineX /\ vreg = BaselineV))
  /\ [](pc = "done" => (xreg = BaselineX /\ vreg = BaselineV /\ sp = saved_sp_))

\* the result 7 is in the slot, the reset has overwritten x0 and left the
\* stack pointer at the frame, and the restore is still to come
C18_Witness ==
  /\ pc = "restore"
  /\ call.shorty = <<"I">>
  /\ steps > 0
  /\ ret_state.x0 = Ptr(7)
  /\ result = Ptr(7)
  /\ xreg = BaselineX
  /\ sp # saved_sp_

\* C19: when the simulator starts on the code of a method, x0 holds the
\* method pointer, x19 the thread pointer and x20 the thread's GC-marking
\* flag of this invocation, whatever the signature and the arguments.
C19_ContextRegistersAtStart ==
  (pc = "running" /\ steps = 0) =>
    /\ xreg[0] = Ptr(call.method.ptr)
    /\ xreg[kSelf] = Ptr(call.self.ptr)
    /\ xreg[kMR] = Ptr(IF call.self.is_gc_marking THEN 1 ELSE 0)

====
